---- MODULE Spec2Model ----
(***************************************************************************)
(* Model of the polling server of new-thesis-rapi5 (server.js): the        *)
(* prediction loop started by setInterval, the per-camera capture and      *)
(* dispatch tasks, the rotation cursor and the two bounded histories, and  *)
(* the camera discovery that runs before the loop is started; also the     *)
(* read routes of the server and the self-update script (selfupdate.js).   *)
(*                                                                         *)
(* Node runs one callback at a time.  Every action below is one callback   *)
(* of the event loop (a timer, a child-process event, a fetch response)    *)
(* or one promise reaction (a microtask).  Promise reactions run before    *)
(* the next callback, which is what MicrotaskPending expresses.            *)
(***************************************************************************)
EXTENDS Integers, Sequences, FiniteSets, TLC

\* ---------------------------------------------------------------- bounds
MaxCameras == 2      \* cameras found by discovery: 0..MaxCameras
MaxCycles  == 2      \* ticks of the interval timer that are explored
MaxFaults  == 2      \* captures that fail in a run from a fresh start
MaxWarmFaults == 1   \* captures that fail in a run from a warm start, and
                     \* in a run of predictionLoop on arbitrary lists
WarmGap    == 1      \* a warm start has cap - WarmGap records in each history
MaxLines   == 5      \* lines of probe output read by discovery: 0..MaxLines
MaxRecords == 3      \* records of a history a read route is called on
MaxStamp   == 3      \* timestamps of those records: 1..MaxStamp

\* ------------------------------------------------------ program constants
PredCap == 100       \* server.js:389
ErrCap  == 50        \* server.js:79
PortBase == 20000    \* server.js:148
MaxAttempts == 60    \* selfupdate.js:11

VARIABLES
    cameras,            \* server.js:36   ids of the detected cameras
    currentModels,      \* server.js:37   configured model list
    currentModelIndex,  \* server.js:41   rotation cursor (0-based)
    predictions,        \* server.js:42   prediction history, front = index 1
    systemErrors,       \* server.js:43   error history, front = index 1
    imageBase,          \* server.js:44   latest frame, encoded
    now,                \* the wall clock read by new Date()
    cycles,             \* the predictionLoop invocations, in start order
    nPred,              \* bookkeeping: prediction records ever inserted
    nErr,               \* bookkeeping: error records ever inserted
    faults,             \* bookkeeping: captures that may still fail
    ticks,              \* bookkeeping: calls of predictionLoop so far
    disc,               \* detectCameras: the probe and what it resolved with
    req,                \* an HTTP request to a read route and its response
    upd                 \* selfupdate.js: the run of selfUpdate

vars == <<cameras, currentModels, currentModelIndex, predictions, systemErrors,
          imageBase, now, cycles, nPred, nErr, faults, ticks, disc, req, upd>>

\* ----------------------------------------------------------------- helpers
Min(a, b) == IF a < b THEN a ELSE b

\* Array.prototype.slice(0, n) under the guard "length > n".
Truncate(s, n) == IF Len(s) > n THEN SubSeq(s, 1, n) ELSE s

\* The value null.
Null == [null |-> TRUE]

\* (variant: the non-null results come out last camera first)
RECURSIVE FilterNonNullBackwards(_)
FilterNonNullBackwards(s) ==
    IF s = <<>> THEN <<>>
    ELSE FilterNonNullBackwards(Tail(s))
             \o (IF Head(s) = Null THEN <<>> ELSE <<Head(s)>>)

\* (variant: one null drops the whole batch)
FilterAllOrNothing(s) == IF \E i \in DOMAIN s : s[i] = Null THEN <<>> ELSE s

\* s.filter(pred => pred !== null)
RECURSIVE FilterNonNull(_)
FilterNonNull(s) ==
    IF s = <<>> THEN <<>>
    ELSE IF Head(s) = Null THEN FilterNonNull(Tail(s))
    ELSE <<Head(s)>> \o FilterNonNull(Tail(s))

\* let imageBase = '': the empty encoding.
NoImage == <<>>

\* The frame camera cam produces in cycle k.
Frame(k, cam) == [cycle |-> k, cameraId |-> cam]

\* `data:image/jpeg;base64,${imageBuffer.toString('base64')}`
Base64Image(frame) == <<"data:image/jpeg;base64", frame>>

ConfiguredModels == <<"lettuce-diseases", "malabar-spinach-training">>

\* What discovery can return: ids 0..n-1 in enumeration order.
DetectedCameras(n) == [i \in 1..n |-> i - 1]

\* ------------------------------------------------------------ histories
\* The entry addSystemError builds; cycle and n are bookkeeping: the cycle
\* the failing capture belongs to and the ordinal of the insertion.
ErrorEntry(cam, msg, k, t, n) ==
    [cameraId |-> cam, error |-> msg, cycle |-> k, timestamp |-> t, n |-> n]

\* (variant: the entry is not stored)
AddSystemErrorDropped(errs, entry) == errs

\* addSystemError: unshift the entry, keep the first 50.
\* (variant: the slice is forgotten)
AddSystemErrorUncapped(errs, entry) == <<entry>> \o errs

AddSystemError(errs, entry) == Truncate(<<entry>> \o errs, ErrCap)

\* (variant: push instead of unshift, the batch goes to the tail)
RecordPredictionsAtTail(preds, batch) == Truncate(preds \o batch, PredCap)

\* predictions.unshift(...batch); keep the first 100.
RecordPredictions(preds, batch) == Truncate(batch \o preds, PredCap)

\* Bookkeeping: number the records of a batch so that the front of the
\* history carries the highest ordinal.
Numbered(batch, base) ==
    [i \in 1..Len(batch) |-> [batch[i] EXCEPT !.n = base + Len(batch) - i + 1]]

\* ------------------------------------------------------- a warm history
\* The histories of a server that has been running: earlier cycles
\* (numbered -1, -2, ... from the most recent), every camera succeeded,
\* cameras answered in reverse list order.
OldCycle(i, L) == 0 - (((i - 1) \div L) + 1)

OldModel(j) ==
    LET N == Len(ConfiguredModels)
    IN  ConfiguredModels[((N - ((0 - j) % N)) % N) + 1]

OldPredictions(cams, len) ==
    [i \in 1..len |->
        LET L   == Len(cams)
            cam == cams[((i - 1) % L) + 1]
            j   == OldCycle(i, L)
        IN  [cameraId |-> cam, model |-> OldModel(j), timestamp |-> 0 - i,
             image |-> Base64Image(Frame(j, cam)), cycle |-> j,
             n |-> len - i + 1]]

\* Earlier capture failures: each left the close record and the record of
\* the task's catch.
OldErrors(cams, len) ==
    [i \in 1..len |->
        LET L   == Len(cams)
            g   == (i - 1) \div 2
            cam == cams[(g % L) + 1]
        IN  ErrorEntry(cam, IF i % 2 = 1 THEN "catch" ELSE "close",
                       0 - (g + 1), 0 - i, len - i + 1)]

\* ----------------------------------------------------------------- tasks
\* One camera's task of one cycle (server.js:373-383) with the capture it
\* started (server.js:240-307).
\*   pc      capture | resolved | rejected | dispatch | done
\*   proc    running | killed | errored | closed
\*   timer   armed | fired
\*   frame   the value the capture resolved with, Null before and otherwise
\*   result  the task's value once done: a prediction record or Null
NewTask ==
    [pc |-> "capture", proc |-> "running", hasData |-> FALSE,
     timer |-> "armed", frame |-> Null, result |-> Null]

\* (variant: the first task to return settles the cycle)
AnyDone(k) == \E i \in DOMAIN cycles[k].task : cycles[k].task[i].pc = "done"

\* Promise.all(predictionPromises) is fulfilled: every task has returned.
AllDone(k) == \A i \in DOMAIN cycles[k].task : cycles[k].task[i].pc = "done"

\* A promise reaction is queued: it runs before any further callback.
MicrotaskPending ==
    \E k \in DOMAIN cycles :
        \/ \E i \in DOMAIN cycles[k].task :
               cycles[k].task[i].pc \in {"resolved", "rejected"}
        \/ AllDone(k) /\ ~cycles[k].committed

\* ------------------------------------------------------------------ Init
\* detectCameras has resolved and initialize has stored its result.
Discovered == [pc |-> "done"]

\* No HTTP request is being looked at.
NoRequest == [pc |-> "none"]

\* selfupdate.js is not being looked at.
NoUpdate == [pc |-> "none"]

\* A fresh process: discovery has run, nothing has been recorded.
Init ==
    /\ \E n \in 0..MaxCameras : cameras = DetectedCameras(n)
    /\ currentModels = ConfiguredModels
    /\ currentModelIndex = 0
    /\ predictions = <<>>
    /\ systemErrors = <<>>
    /\ imageBase = NoImage
    /\ nPred = 0
    /\ nErr = 0
    /\ now = 0
    /\ cycles = <<>>
    /\ faults = MaxFaults
    /\ ticks = 0
    /\ req = NoRequest
    /\ upd = NoUpdate
    /\ disc = Discovered

\* A process that has been polling for a while: both histories are WarmGap
\* short of their caps and no cycle is in flight.
\* predictionLoop called on any camera list and model list, empty ones
\* included; nothing has been recorded.
InitLoop ==
    /\ \E n \in 0..MaxCameras : cameras = DetectedCameras(n)
    /\ currentModels \in {<<>>, ConfiguredModels}
    /\ currentModelIndex = 0
    /\ predictions = <<>>
    /\ systemErrors = <<>>
    /\ imageBase = NoImage
    /\ now = 0
    /\ cycles = <<>>
    /\ nPred = 0
    /\ nErr = 0
    /\ faults = MaxWarmFaults
    /\ ticks = 0
    /\ req = NoRequest
    /\ upd = NoUpdate
    /\ disc = Discovered

InitWarm ==
    /\ \E n \in 1..MaxCameras : cameras = DetectedCameras(n)
    /\ currentModels = ConfiguredModels
    /\ currentModelIndex = 0
    /\ predictions = OldPredictions(cameras, PredCap - WarmGap)
    /\ systemErrors = OldErrors(cameras, ErrCap - WarmGap)
    /\ imageBase = predictions[1].image
    /\ nPred = Len(predictions)
    /\ nErr = Len(systemErrors)
    /\ now = 0
    /\ cycles = <<>>
    /\ faults = MaxWarmFaults
    /\ ticks = 0
    /\ req = NoRequest
    /\ upd = NoUpdate
    /\ disc = Discovered

\* --------------------------------------------------------------- actions
\* The record a task leaves in the error history, stamped with the clock.
Err(cam, msg, k) == ErrorEntry(cam, msg, k, now, nErr + 1)

\* (variant: a failed capture lets the task go on to its dispatch)
RejectIntoDispatch(t) ==
    IF t.pc = "capture" THEN [t EXCEPT !.pc = "resolved"] ELSE t

\* reject(...) and resolve(...) settle the capture's promise once; a second
\* call is ignored.
Reject(t) == IF t.pc = "capture" THEN [t EXCEPT !.pc = "rejected"] ELSE t
Resolve(t, frame) ==
    IF t.pc = "capture" THEN [t EXCEPT !.pc = "resolved", !.frame = frame] ELSE t

\* (variant: the cursor is not taken modulo the length)
AdvanceUnwrapped(index, len) == index + 1

\* (variant: the cursor steps by two)
AdvanceByTwo(index, len) == (index + 2) % len

\* currentModelIndex = (currentModelIndex + 1) % currentModels.length
Advance(index, len) == (index + 1) % len

\* Bookkeeping of the explored environment: a step that rejects a pending
\* capture is a new fault, and a run explores a bounded number of them.
Fault(t, u) ==
    IF t.pc = "capture" /\ u.pc = "rejected"
    THEN faults > 0 /\ faults' = faults - 1
    ELSE UNCHANGED faults

\* if (cameras.length === 0 || currentModels.length === 0) return;
\* (variant: only the model list is looked at)
SkipCycleModelsOnly(cams, models) == Len(models) = 0

SkipCycle(cams, models) == Len(cams) = 0 \/ Len(models) = 0

\* predictionLoop from its call to its return: the cycle is skipped, or the
\* model is read, every camera's task is started (each runs up to the await
\* of its capture, which has spawned ffmpeg and armed the timer) and the
\* cursor is advanced.
PredictionLoop ==
    /\ ~MicrotaskPending
    /\ ticks < MaxCycles
    /\ ticks' = ticks + 1
    /\ IF SkipCycle(cameras, currentModels)
       THEN UNCHANGED <<cycles, currentModelIndex>>
       ELSE /\ cycles' = Append(cycles,
                   [model     |-> currentModels[currentModelIndex + 1],
                    committed |-> FALSE,
                    task      |-> [i \in 1..Len(cameras) |-> NewTask]])
            /\ currentModelIndex' = Advance(currentModelIndex, Len(currentModels))
    /\ UNCHANGED <<req, upd, disc, cameras, currentModels, predictions, systemErrors,
                   imageBase, now, nPred, nErr, faults>>

\* (variant: a tick waits until every earlier cycle has committed)
TickSingleFlight ==
    /\ \A k \in DOMAIN cycles : cycles[k].committed
    /\ cameras # <<>>
    /\ PredictionLoop

\* setInterval(predictionLoop, 2000) fires.  initialize registers the
\* interval only if discovery found a camera.
Tick ==
    /\ cameras # <<>>
    /\ PredictionLoop

\* ffmpeg.stdout 'data': the first bytes of the frame arrive.
StdoutData(k, i) ==
    LET t == cycles[k].task[i] IN
    /\ ~MicrotaskPending
    /\ t.proc = "running"
    /\ ~t.hasData
    /\ cycles' = [cycles EXCEPT ![k].task[i].hasData = TRUE]
    /\ UNCHANGED <<req, upd, disc, ticks, cameras, currentModels, currentModelIndex, predictions,
                   systemErrors, imageBase, now, nPred, nErr, faults>>

\* (variant: the exit code alone decides)
CaptureOkIgnoringData(code, hasData) == code = 0

\* code === 0 && hasData && imageBuffer.length > 0: the buffer is non-empty
\* exactly when a 'data' event has delivered bytes.
CaptureOk(code, hasData) == code = 0 /\ hasData

\* ffmpeg 'close' with exit code `code` (0 or not; not 0 after a kill or a
\* failed spawn).
FfmpegClose(k, i, code) ==
    LET t == cycles[k].task[i] IN
    /\ ~MicrotaskPending
    /\ t.proc \in {"running", "killed", "errored"}
    /\ t.proc # "running" => code # 0
    /\ IF CaptureOk(code, t.hasData)
       THEN /\ cycles' = [cycles EXCEPT
                            ![k].task[i] = [Resolve(t, Frame(k, cameras[i]))
                                              EXCEPT !.proc = "closed"]]
            /\ UNCHANGED <<systemErrors, nErr>>
       ELSE /\ systemErrors' =
                   AddSystemError(systemErrors, Err(cameras[i], "close", k))
            /\ nErr' = nErr + 1
            /\ cycles' = [cycles EXCEPT
                            ![k].task[i] = [Reject(t) EXCEPT !.proc = "closed"]]
    /\ Fault(t, cycles'[k].task[i])
    /\ UNCHANGED <<req, upd, disc, ticks, cameras, currentModels, currentModelIndex, predictions,
                   imageBase, now, nPred>>

\* ffmpeg 'error': the process could not be spawned.
FfmpegError(k, i) ==
    LET t == cycles[k].task[i] IN
    /\ ~MicrotaskPending
    /\ t.proc = "running"
    /\ ~t.hasData
    /\ t.timer = "armed"
    /\ systemErrors' = AddSystemError(systemErrors, Err(cameras[i], "error", k))
    /\ nErr' = nErr + 1
    /\ cycles' = [cycles EXCEPT
                    ![k].task[i] = [Reject(t) EXCEPT !.proc = "errored"]]
    /\ Fault(t, cycles'[k].task[i])
    /\ UNCHANGED <<req, upd, disc, ticks, cameras, currentModels, currentModelIndex, predictions,
                   imageBase, now, nPred>>

\* (variant: the timer acts whether or not bytes have arrived)
DeadlineAlwaysActs(hasData) == TRUE

\* if (!hasData) { ffmpeg.kill('SIGTERM'); addSystemError(...); reject(...) }
DeadlineActs(hasData) == ~hasData

\* The 10 s timer of the capture fires.
CaptureTimeout(k, i) ==
    LET t == cycles[k].task[i] IN
    /\ ~MicrotaskPending
    /\ t.timer = "armed"
    /\ IF DeadlineActs(t.hasData)
       THEN /\ systemErrors' =
                   AddSystemError(systemErrors, Err(cameras[i], "timeout", k))
            /\ nErr' = nErr + 1
            /\ cycles' = [cycles EXCEPT ![k].task[i] =
                   [Reject(t) EXCEPT
                       !.timer = "fired",
                       !.proc = IF t.proc = "running" THEN "killed" ELSE t.proc]]
       ELSE UNCHANGED <<cycles, systemErrors, nErr>>
    /\ Fault(t, cycles'[k].task[i])
    /\ UNCHANGED <<req, upd, disc, ticks, cameras, currentModels, currentModelIndex, predictions,
                   imageBase, now, nPred>>

\* The task's catch block runs on the rejected capture.
TaskCatch(k, i) ==
    LET t == cycles[k].task[i] IN
    /\ t.pc = "rejected"
    /\ systemErrors' = AddSystemError(systemErrors, Err(cameras[i], "catch", k))
    /\ nErr' = nErr + 1
    /\ cycles' = [cycles EXCEPT ![k].task[i] =
                    [t EXCEPT !.pc = "done", !.result = Null]]
    /\ UNCHANGED <<req, upd, disc, ticks, cameras, currentModels, currentModelIndex, predictions,
                   imageBase, now, nPred, faults>>

\* The task resumes with the frame and calls sendPrediction, up to its fetch.
TaskDispatch(k, i) ==
    LET t == cycles[k].task[i] IN
    /\ t.pc = "resolved"
    /\ cycles' = [cycles EXCEPT ![k].task[i].pc = "dispatch"]
    /\ UNCHANGED <<req, upd, disc, ticks, cameras, currentModels, currentModelIndex, predictions,
                   systemErrors, imageBase, now, nPred, nErr, faults>>

DispatchOutcomes == {"ok", "http-error", "transport-error", "error-field"}

\* What sendPrediction returns: the record, or null from its catch block
\* (!response.ok, a failed fetch and result['error'] all throw into it).
SendPredictionResult(outcome, prediction) ==
    IF outcome = "ok" THEN prediction ELSE Null

\* (variant: the latest frame is stored before the response is examined)
ImageBaseNeverStored(outcome, imageBase64, old) == old

ImageBaseStoredFirst(outcome, imageBase64, old) == imageBase64

\* imageBase after sendPrediction: assigned only past the three checks.
ImageBaseAfter(outcome, imageBase64, old) ==
    IF outcome = "ok" THEN imageBase64 ELSE old

\* The inference service answers (or the request fails): the rest of
\* sendPrediction and the task's return.  A record takes the clock's
\* reading, and the clock has moved on by the next reading.
DispatchResponse(k, i, outcome) ==
    LET t == cycles[k].task[i]
        imageBase64 == Base64Image(t.frame)
        prediction ==
            [cameraId |-> cameras[i], model |-> cycles[k].model,
             timestamp |-> now, image |-> imageBase64, cycle |-> k, n |-> 0]
    IN
    /\ ~MicrotaskPending
    /\ t.pc = "dispatch"
    /\ imageBase' = ImageBaseAfter(outcome, imageBase64, imageBase)
    /\ cycles' = [cycles EXCEPT ![k].task[i] =
           [t EXCEPT !.pc = "done",
                     !.result = SendPredictionResult(outcome, prediction)]]
    /\ now' = IF outcome = "ok" THEN now + 1 ELSE now
    /\ UNCHANGED <<req, upd, disc, ticks, cameras, currentModels, currentModelIndex, predictions,
                   systemErrors, nPred, nErr, faults>>

\* Promise.all(...).then: every task of cycle k has returned.
Commit(k) ==
    LET p     == cycles[k].task
        batch == FilterNonNull([i \in DOMAIN p |-> p[i].result])
    IN
    /\ AllDone(k)
    /\ ~cycles[k].committed
    /\ predictions' = RecordPredictions(predictions, Numbered(batch, nPred))
    /\ nPred' = nPred + Len(batch)
    /\ cycles' = [cycles EXCEPT ![k].committed = TRUE]
    /\ UNCHANGED <<req, upd, disc, ticks, cameras, currentModels, currentModelIndex, systemErrors,
                   imageBase, now, nErr, faults>>

\* One callback or promise reaction of some camera's task.
TaskStep ==
    \E k \in DOMAIN cycles : \E i \in DOMAIN cycles[k].task :
        \/ StdoutData(k, i)
        \/ \E code \in {0, 1} : FfmpegClose(k, i, code)
        \/ FfmpegError(k, i)
        \/ CaptureTimeout(k, i)
        \/ TaskCatch(k, i)
        \/ TaskDispatch(k, i)
        \/ \E outcome \in DispatchOutcomes : DispatchResponse(k, i, outcome)

CommitStep == \E k \in DOMAIN cycles : Commit(k)

Next ==
    \/ Tick
    \/ TaskStep
    \/ CommitStep

Spec == Init /\ [][Next]_vars

SpecWarm == InitWarm /\ [][Next]_vars

\* predictionLoop driven directly, whatever the camera and model lists are.
NextLoop ==
    \/ PredictionLoop
    \/ TaskStep
    \/ CommitStep

SpecLoop == InitLoop /\ [][NextLoop]_vars

\* ------------------------------------------------------------ progress
\* One camera, nothing recorded, and every capture of the run may fail.
InitLive ==
    /\ cameras = DetectedCameras(1)
    /\ currentModels = ConfiguredModels
    /\ currentModelIndex = 0
    /\ predictions = <<>>
    /\ systemErrors = <<>>
    /\ imageBase = NoImage
    /\ now = 0
    /\ cycles = <<>>
    /\ nPred = 0
    /\ nErr = 0
    /\ faults = MaxCycles
    /\ ticks = 0
    /\ req = NoRequest
    /\ upd = NoUpdate
    /\ disc = Discovered

\* What the event loop and the assumption on the network guarantee for the
\* task of camera i in cycle k: an armed timer fires, a queued promise
\* reaction runs, a dispatch is answered.  Nothing is assumed of ffmpeg: it
\* may never print and never exit.
TaskFairness(k, i) ==
    /\ WF_vars(k \in DOMAIN cycles /\ i \in DOMAIN cycles[k].task
                 /\ CaptureTimeout(k, i))
    /\ WF_vars(k \in DOMAIN cycles /\ i \in DOMAIN cycles[k].task
                 /\ TaskCatch(k, i))
    /\ WF_vars(k \in DOMAIN cycles /\ i \in DOMAIN cycles[k].task
                 /\ TaskDispatch(k, i))
    /\ WF_vars(k \in DOMAIN cycles /\ i \in DOMAIN cycles[k].task
                 /\ \E outcome \in DispatchOutcomes :
                        DispatchResponse(k, i, outcome))

SpecLive ==
    /\ InitLive
    /\ [][Next]_vars
    /\ \A k \in 1..MaxCycles :
           /\ WF_vars(k \in DOMAIN cycles /\ Commit(k))
           /\ \A i \in 1..MaxCameras : TaskFairness(k, i)

\* -------------------------------------------------------- detectCameras
\* streamPort: 20000 + i
StreamPort(id) == PortBase + id

\* os.platform(): 'linux', 'win32', or anything else.
Platforms == {"linux", "win32", "other"}

\* A line of `v4l2-ctl --list-devices`, by what the parser's tests see of it:
\* the header of an ordinary device group, the header of the pispbe or of
\* the rpivid group, a /dev/video node, a /dev/media node, an empty line.
V4l2Lines == {"header", "pispbe", "rpivid", "video", "media", "blank"}

\* A line of `ffmpeg -list_devices true -f dshow -i dummy`: a video device
\* with its quoted name, a video device whose quoted name is empty, an audio
\* device, anything else.
DshowLines == {"video", "unnamed", "audio", "other"}

SeqsUpTo(S, n) == UNION {[1..m -> S] : m \in 0..n}

\* includes('pispbe') || includes('rpivid') || includes('/dev/media')
IsInternal(line) == line \in {"pispbe", "rpivid", "media"}

\* length > 0 && !startsWith('/dev/') && endsWith('):')
IsGroupHeader(line) == line \in {"header", "pispbe", "rpivid"}

\* startsWith('/dev/video')
IsVideoNode(line) == line = "video"

\* (variant: every video node under a header is pushed, the header is kept)
V4l2LineEveryNode(st, line, j) ==
    IF IsInternal(line) THEN st
    ELSE IF IsGroupHeader(line)
    THEN [st EXCEPT !.currentCamera = [name |-> j, devices |-> <<>>]]
    ELSE IF IsVideoNode(line) /\ st.currentCamera # Null
    THEN [st EXCEPT !.cameras =
              Append(st.cameras, [st.currentCamera EXCEPT !.devices = <<j>>])]
    ELSE st

\* One turn of the loop over the lines of the v4l2-ctl output.  A header is
\* named by its line number, and so is a device node.
V4l2Line(st, line, j) ==
    IF IsInternal(line) THEN st
    ELSE IF IsGroupHeader(line)
    THEN [st EXCEPT !.currentCamera = [name |-> j, devices |-> <<>>]]
    ELSE IF IsVideoNode(line) /\ st.currentCamera # Null
    THEN [cameras |->
              IF Len(st.currentCamera.devices) = 0
              THEN Append(st.cameras,
                          [st.currentCamera EXCEPT !.devices = <<j>>])
              ELSE st.cameras,
          currentCamera |-> Null]
    ELSE st

RECURSIVE ParseV4l2(_, _, _)
ParseV4l2(lines, j, st) ==
    IF j > Len(lines) THEN st
    ELSE ParseV4l2(lines, j + 1, V4l2Line(st, lines[j], j))

\* The close handler of the v4l2-ctl process: parse, then number the cameras.
DetectLinux(lines) ==
    LET cams == ParseV4l2(lines, 1, [cameras |-> <<>>, currentCamera |-> Null]).cameras
    IN  [i \in 1..Len(cams) |->
            [id |-> i - 1, name |-> cams[i].name, device |-> cams[i].devices[1],
             streamPort |-> StreamPort(i - 1)]]

\* line.includes('] "') && line.includes('" (video)')
HasVideoMarks(line) == line \in {"video", "unnamed"}

\* line.match(/\] "([^"]+)" \(video\)/)
MatchesVideoName(line) == line = "video"

\* (variant: the index counts every line)
DshowLineCountingEveryLine(st, line, j) ==
    IF HasVideoMarks(line) /\ MatchesVideoName(line)
    THEN [detectedCameras |-> Append(st.detectedCameras,
                                 [id |-> st.cameraIndex, device |-> j,
                                  streamPort |-> StreamPort(st.cameraIndex)]),
          cameraIndex |-> st.cameraIndex + 1]
    ELSE [st EXCEPT !.cameraIndex = st.cameraIndex + 1]

\* One turn of the loop over the lines of the ffmpeg output.
DshowLine(st, line, j) ==
    IF HasVideoMarks(line) /\ MatchesVideoName(line)
    THEN [detectedCameras |-> Append(st.detectedCameras,
                                 [id |-> st.cameraIndex, device |-> j,
                                  streamPort |-> StreamPort(st.cameraIndex)]),
          cameraIndex |-> st.cameraIndex + 1]
    ELSE st

RECURSIVE ParseDshow(_, _, _)
ParseDshow(lines, j, st) ==
    IF j > Len(lines) THEN st
    ELSE ParseDshow(lines, j + 1, DshowLine(st, lines[j], j))

\* The close handler of the ffmpeg process.
DetectWindows(lines) ==
    ParseDshow(lines, 1, [detectedCameras |-> <<>>, cameraIndex |-> 0]).detectedCameras

\* What a probe that runs on `platform` can print.
ProbeOutputs(platform) ==
    CASE platform = "linux" -> SeqsUpTo(V4l2Lines, MaxLines)
      [] platform = "win32" -> SeqsUpTo(DshowLines, MaxLines)
      [] OTHER -> {<<>>}

\* detectCameras has been called.  On Linux and Windows spawn() has returned
\* a child process: the probe runs and will print `output`, or it could not
\* be started and prints nothing.  Elsewhere there is no probe.
InitDiscover ==
    /\ \E platform \in Platforms : \E spawned \in BOOLEAN :
       \E output \in (IF spawned THEN ProbeOutputs(platform) ELSE {<<>>}) :
           /\ platform = "other" => ~spawned
           /\ disc = [pc |-> "probing", platform |-> platform,
                      spawned |-> spawned, output |-> output,
                      detected |-> <<>>]
    /\ cameras = <<>>
    /\ currentModels = ConfiguredModels
    /\ currentModelIndex = 0
    /\ predictions = <<>>
    /\ systemErrors = <<>>
    /\ imageBase = NoImage
    /\ now = 0
    /\ cycles = <<>>
    /\ nPred = 0
    /\ nErr = 0
    /\ faults = 0
    /\ ticks = 0
    /\ req = NoRequest
    /\ upd = NoUpdate

\* The probe's 'close' event: the collected output is parsed and the promise
\* resolved with the descriptors.  The exit code is not looked at.
ProbeClose ==
    /\ disc.pc = "probing"
    /\ disc.spawned
    /\ disc' = [disc EXCEPT
                  !.pc = "resolved",
                  !.detected = IF disc.platform = "linux"
                               THEN DetectLinux(disc.output)
                               ELSE DetectWindows(disc.output)]
    /\ UNCHANGED <<req, upd, ticks, cameras, currentModels, currentModelIndex,
                   predictions, systemErrors, imageBase, now, cycles, nPred,
                   nErr, faults>>

\* The probe's 'error' event: the utility could not be started.  On Linux
\* the listener resolves with []; the 'close' that follows parses the empty
\* output and its resolve is ignored.  On Windows the child process has no
\* 'error' listener, so the event is thrown as an uncaught exception.
ProbeError ==
    /\ disc.pc = "probing"
    /\ ~disc.spawned
    /\ disc.platform \in {"linux", "win32"}
    /\ disc' = [disc EXCEPT
                  !.pc = IF disc.platform = "linux" THEN "resolved"
                                                    ELSE "crashed"]
    /\ UNCHANGED <<req, upd, ticks, cameras, currentModels, currentModelIndex,
                   predictions, systemErrors, imageBase, now, cycles, nPred,
                   nErr, faults>>

\* Neither Linux nor Windows: detectCameras returns the empty array.
NoProbe ==
    /\ disc.pc = "probing"
    /\ disc.platform = "other"
    /\ disc' = [disc EXCEPT !.pc = "resolved"]
    /\ UNCHANGED <<req, upd, ticks, cameras, currentModels, currentModelIndex,
                   predictions, systemErrors, imageBase, now, cycles, nPred,
                   nErr, faults>>

\* cameras = await detectCameras(): initialize stores the descriptors; the
\* rest of the program refers to a camera by its id.
Initialize ==
    /\ disc.pc = "resolved"
    /\ cameras' = [j \in DOMAIN disc.detected |-> disc.detected[j].id]
    /\ disc' = Discovered
    /\ UNCHANGED <<req, upd, ticks, currentModels, currentModelIndex, predictions,
                   systemErrors, imageBase, now, cycles, nPred, nErr, faults>>

NextDiscover ==
    \/ ProbeClose
    \/ ProbeError
    \/ NoProbe
    \/ Initialize

SpecDiscover == InitDiscover /\ [][NextDiscover]_vars

\* ------------------------------------------------------------ read routes
\* A record of the history as sendPrediction builds it.
StoredRecord(cam, t) ==
    [cameraId |-> cam, model |-> ConfiguredModels[1], timestamp |-> t,
     image |-> Base64Image(Frame(0, cam)), cycle |-> 0, n |-> 0]

Routes == {"/api/image", "/api/predictions/latest"}

\* A request has reached one of the routes, in a server whose history holds
\* any records in any order and whose latest frame is empty or is the image
\* of one of them.
InitRoutes ==
    /\ cameras = DetectedCameras(MaxCameras)
    /\ currentModels = ConfiguredModels
    /\ currentModelIndex = 0
    /\ predictions \in SeqsUpTo({StoredRecord(cameras[i], t) :
                                    i \in DOMAIN cameras, t \in 1..MaxStamp},
                                MaxRecords)
    /\ systemErrors = <<>>
    /\ imageBase \in {NoImage} \cup {predictions[j].image : j \in DOMAIN predictions}
    /\ now = MaxStamp + 1
    /\ cycles = <<>>
    /\ nPred = Len(predictions)
    /\ nErr = 0
    /\ faults = 0
    /\ ticks = 0
    /\ disc = Discovered
    /\ req \in {[pc |-> "received", route |-> r, body |-> Null] : r \in Routes}
    /\ upd = NoUpdate

\* if (imageBase): the empty string is falsy, every other string is truthy.
Truthy(image) == image # NoImage

\* GET /api/image: the handler answers only if there is a latest frame;
\* otherwise it returns and nothing ever answers the request.
GetImage ==
    /\ req.pc = "received"
    /\ req.route = "/api/image"
    /\ req' = IF Truthy(imageBase)
              THEN [req EXCEPT !.pc = "responded",
                               !.body = [image |-> imageBase]]
              ELSE [req EXCEPT !.pc = "returned"]
    /\ UNCHANGED <<upd, disc, ticks, cameras, currentModels, currentModelIndex,
                   predictions, systemErrors, imageBase, now, cycles, nPred,
                   nErr, faults>>

\* (variant: the first record met for a camera is kept)
LatestStepFirstSeen(latestByCamera, p) ==
    IF p.cameraId \notin DOMAIN latestByCamera
    THEN [c \in DOMAIN latestByCamera \cup {p.cameraId} |->
             IF c = p.cameraId THEN p ELSE latestByCamera[c]]
    ELSE latestByCamera

\* One turn of the loop over the history: the record replaces the camera's
\* entry if there is none yet or if its timestamp is later.
LatestStep(latestByCamera, p) ==
    IF \/ p.cameraId \notin DOMAIN latestByCamera
       \/ p.timestamp > latestByCamera[p.cameraId].timestamp
    THEN [c \in DOMAIN latestByCamera \cup {p.cameraId} |->
             IF c = p.cameraId THEN p ELSE latestByCamera[c]]
    ELSE latestByCamera

RECURSIVE LatestByCamera(_, _)
LatestByCamera(preds, latestByCamera) ==
    IF preds = <<>> THEN latestByCamera
    ELSE LatestByCamera(Tail(preds), LatestStep(latestByCamera, Head(preds)))

\* GET /api/predictions/latest: the body holds the values of latestByCamera,
\* kept here under their camera ids.
GetPredictionsLatest ==
    /\ req.pc = "received"
    /\ req.route = "/api/predictions/latest"
    /\ req' = [req EXCEPT !.pc = "responded",
                          !.body = LatestByCamera(predictions, <<>>)]
    /\ UNCHANGED <<upd, disc, ticks, cameras, currentModels, currentModelIndex,
                   predictions, systemErrors, imageBase, now, cycles, nPred,
                   nErr, faults>>

NextRoutes ==
    \/ GetImage
    \/ GetPredictionsLatest

\* Express runs the handler of every request it has received.
SpecRoutes == InitRoutes /\ [][NextRoutes]_vars /\ WF_vars(NextRoutes)

\* ------------------------------------------------------------ selfupdate
\* What the user may type at the prompt.
Answers == {"CONFIRM", " CONFIRM ", "confirm", "yes", ""}

\* answer.trim()
Trim(answer) == IF answer = " CONFIRM " THEN "CONFIRM" ELSE answer

\* selfUpdate has been called.  The working tree has uncommitted changes or
\* not, the branch has unpushed commits or not.
InitUpdate ==
    /\ cameras = <<>>
    /\ currentModels = ConfiguredModels
    /\ currentModelIndex = 0
    /\ predictions = <<>>
    /\ systemErrors = <<>>
    /\ imageBase = NoImage
    /\ now = 0
    /\ cycles = <<>>
    /\ nPred = 0
    /\ nErr = 0
    /\ faults = 0
    /\ ticks = 0
    /\ disc = Discovered
    /\ req = NoRequest
    /\ \E dirty, unpushed \in BOOLEAN :
           upd = [pc |-> "waiting", i |-> 0, online |-> FALSE,
                  dirty |-> dirty, unpushed |-> unpushed,
                  answer |-> "", ran |-> <<>>]

\* execAsync(cmd) has settled, fulfilled (ok) or rejected.
Ran(u, cmd, ok) == [u EXCEPT !.ran = Append(@, [cmd |-> cmd, ok |-> ok])]

\* (variant: after the last probe the update is attempted anyway)
AfterProbeUpdatesAnyway(i, hasInternet) ==
    IF hasInternet \/ i >= MaxAttempts THEN "fetch" ELSE "waiting"

\* Where control goes after probe i of waitForInternet: a success returns
\* true to selfUpdate, a failure loops while i < maxAttempts and then
\* returns false, on which selfUpdate returns.
AfterProbe(i, hasInternet) ==
    IF hasInternet THEN "fetch"
    ELSE IF i < MaxAttempts THEN "waiting" ELSE "done"

\* One turn of the loop of waitForInternet: the request is answered, or it
\* fails or times out, and in that case the loop sleeps for a second.
Probe(hasInternet) ==
    /\ upd.pc = "waiting"
    /\ upd' = [upd EXCEPT !.i = @ + 1,
                          !.online = hasInternet,
                          !.pc = AfterProbe(upd.i + 1, hasInternet)]
    /\ UNCHANGED <<req, disc, ticks, cameras, currentModels, currentModelIndex,
                   predictions, systemErrors, imageBase, now, cycles, nPred,
                   nErr, faults>>

\* git fetch origin; a rejection goes to the catch block of selfUpdate.
GitFetch(ok) ==
    /\ upd.pc = "fetch"
    /\ upd' = [Ran(upd, "git fetch origin", ok) EXCEPT
                  !.pc = IF ok THEN "branch" ELSE "done"]
    /\ UNCHANGED <<req, disc, ticks, cameras, currentModels, currentModelIndex,
                   predictions, systemErrors, imageBase, now, cycles, nPred,
                   nErr, faults>>

\* git rev-parse --abbrev-ref HEAD, in selfUpdate.
GitBranch(ok) ==
    /\ upd.pc = "branch"
    /\ upd' = [Ran(upd, "git rev-parse", ok) EXCEPT
                  !.pc = IF ok THEN "status" ELSE "done"]
    /\ UNCHANGED <<req, disc, ticks, cameras, currentModels, currentModelIndex,
                   predictions, systemErrors, imageBase, now, cycles, nPred,
                   nErr, faults>>

\* checkForLocalChanges: git status --porcelain.  Output means local
\* changes; a rejection goes to the catch block, which returns false.
GitStatus(ok) ==
    /\ upd.pc = "status"
    /\ upd' = [Ran(upd, "git status --porcelain", ok) EXCEPT
                  !.pc = IF ok
                         THEN (IF upd.dirty THEN "prompt" ELSE "branch2")
                         ELSE "reset"]
    /\ UNCHANGED <<req, disc, ticks, cameras, currentModels, currentModelIndex,
                   predictions, systemErrors, imageBase, now, cycles, nPred,
                   nErr, faults>>

\* checkForLocalChanges: git rev-parse --abbrev-ref HEAD.
GitBranchForLog(ok) ==
    /\ upd.pc = "branch2"
    /\ upd' = [Ran(upd, "git rev-parse", ok) EXCEPT
                  !.pc = IF ok THEN "log" ELSE "reset"]
    /\ UNCHANGED <<req, disc, ticks, cameras, currentModels, currentModelIndex,
                   predictions, systemErrors, imageBase, now, cycles, nPred,
                   nErr, faults>>

\* checkForLocalChanges: git log origin/<branch>..HEAD --oneline.
GitLog(ok) ==
    /\ upd.pc = "log"
    /\ upd' = [Ran(upd, "git log", ok) EXCEPT
                  !.pc = IF ok
                         THEN (IF upd.unpushed THEN "prompt" ELSE "reset")
                         ELSE "reset"]
    /\ UNCHANGED <<req, disc, ticks, cameras, currentModels, currentModelIndex,
                   predictions, systemErrors, imageBase, now, cycles, nPred,
                   nErr, faults>>

\* promptUserConfirmation and the test of its result.
Prompt(answer) ==
    /\ upd.pc = "prompt"
    /\ upd' = [upd EXCEPT
                  !.answer = answer,
                  !.pc = IF Trim(answer) = "CONFIRM" THEN "reset" ELSE "done"]
    /\ UNCHANGED <<req, disc, ticks, cameras, currentModels, currentModelIndex,
                   predictions, systemErrors, imageBase, now, cycles, nPred,
                   nErr, faults>>

\* git reset --hard origin/<branch>
GitReset(ok) ==
    /\ upd.pc = "reset"
    /\ upd' = [Ran(upd, "git reset --hard", ok) EXCEPT
                  !.pc = IF ok THEN "clean" ELSE "done"]
    /\ UNCHANGED <<req, disc, ticks, cameras, currentModels, currentModelIndex,
                   predictions, systemErrors, imageBase, now, cycles, nPred,
                   nErr, faults>>

\* git clean -fd
GitClean(ok) ==
    /\ upd.pc = "clean"
    /\ upd' = [Ran(upd, "git clean -fd", ok) EXCEPT !.pc = "done"]
    /\ UNCHANGED <<req, disc, ticks, cameras, currentModels, currentModelIndex,
                   predictions, systemErrors, imageBase, now, cycles, nPred,
                   nErr, faults>>

NextUpdate ==
    \/ \E hasInternet \in BOOLEAN : Probe(hasInternet)
    \/ \E ok \in BOOLEAN : GitFetch(ok)
    \/ \E ok \in BOOLEAN : GitBranch(ok)
    \/ \E ok \in BOOLEAN : GitStatus(ok)
    \/ \E ok \in BOOLEAN : GitBranchForLog(ok)
    \/ \E ok \in BOOLEAN : GitLog(ok)
    \/ \E answer \in Answers : Prompt(answer)
    \/ \E ok \in BOOLEAN : GitReset(ok)
    \/ \E ok \in BOOLEAN : GitClean(ok)

SpecUpdate == InitUpdate /\ [][NextUpdate]_vars

\* ---------------------------------------------------------------- claims
Range(s) == {s[i] : i \in DOMAIN s}

\* The capture of task t failed: the task left "capture" without a frame.
CaptureFailed(t) == t.pc \in {"rejected", "done"} /\ t.frame = Null

\* The dispatch of task t failed: it had a frame and returned null.
DispatchFailed(t) == t.pc = "done" /\ t.frame # Null /\ t.result = Null

\* The task produced a record.
Succeeded(t) == t.pc = "done" /\ t.result # Null

\* C1: the prediction history never holds more than 100 records, and it is
\* always the most recently inserted ones, the latest insertion at the
\* front: once more than 100 have been inserted, exactly the last 100 remain.
C1_PredictionHistoryCapped ==
    /\ Len(predictions) <= PredCap
    /\ Len(predictions) = Min(nPred, PredCap)
    /\ \A i \in 1..Len(predictions) : predictions[i].n = nPred - i + 1

\* More than 100 records were inserted by two overlapping cycles, the one
\* that started later committing first.
C1_Witness ==
    /\ nPred > PredCap
    /\ Len(predictions) = PredCap
    /\ predictions[1].cycle = 1
    /\ predictions[2].cycle = 2

\* C2: the prediction history is ordered newest-first by timestamp.
C2_NewestFirstByTimestamp ==
    \A i, j \in 1..Len(predictions) :
        i < j => predictions[i].timestamp >= predictions[j].timestamp

\* C3: the error history never holds more than 50 records, in reverse
\* insertion order: once more than 50 have been inserted, exactly the last
\* 50 remain.
C3_ErrorHistoryCapped ==
    /\ Len(systemErrors) <= ErrCap
    /\ Len(systemErrors) = Min(nErr, ErrCap)
    /\ \A i \in 1..Len(systemErrors) : systemErrors[i].n = nErr - i + 1

\* More than 50 error records were inserted and the oldest is gone.
C3_Witness ==
    /\ nErr > ErrCap
    /\ Len(systemErrors) = ErrCap
    /\ systemErrors[ErrCap].n = nErr - ErrCap + 1

\* C4: every cycle moves the cursor one position on, modulo the number of
\* models, whatever happens to its captures and dispatches: cycle k runs
\* with model (k-1) mod N, and any N cycles in a row use every model once.
C4_RoundRobin ==
    LET N == Len(currentModels) IN
    /\ currentModelIndex = Len(cycles) % N
    /\ \A k \in DOMAIN cycles :
           cycles[k].model = currentModels[((k - 1) % N) + 1]
    /\ \A k \in DOMAIN cycles :
           k + N - 1 <= Len(cycles) =>
               /\ {cycles[j].model : j \in k..(k + N - 1)} = Range(currentModels)
               /\ \A a, b \in k..(k + N - 1) :
                      cycles[a].model = cycles[b].model => a = b

\* N cycles have started and overlap, a capture of the first one failed, and
\* the cursor is back at the first model.
C4_Witness ==
    /\ Len(cycles) = Len(currentModels)
    /\ ~cycles[1].committed
    /\ \E i \in DOMAIN cycles[1].task : CaptureFailed(cycles[1].task[i])
    /\ currentModelIndex = 0

\* The error records in the history that belong to camera cam's capture of
\* cycle k.
ErrorsFor(k, cam) ==
    Cardinality({j \in DOMAIN systemErrors :
                    systemErrors[j].cycle = k /\ systemErrors[j].cameraId = cam})

\* The prediction records in the history that cycle k produced for cam.
RecordsFor(k, cam) ==
    Cardinality({j \in DOMAIN predictions :
                    predictions[j].cycle = k /\ predictions[j].cameraId = cam})

\* C5: two cameras, two models a and b, empty histories.  Cycle 1 runs with
\* a and both cameras succeed: 2 predictions, cursor at b.  Cycle 2 runs
\* with b, the first camera's capture times out and the second succeeds:
\* exactly 1 more prediction, exactly 1 error record, cursor back at a.
C5_EndToEndScenario ==
    /\ ( /\ Len(cameras) = 2
         /\ Len(cycles) = 1
         /\ cycles[1].committed
         /\ \A i \in 1..2 : Succeeded(cycles[1].task[i]) )
       => /\ cycles[1].model = currentModels[1]
          /\ Len(predictions) = 2
          /\ currentModelIndex = 1
    /\ ( /\ Len(cameras) = 2
         /\ Len(cycles) = 2
         /\ cycles[1].committed
         /\ cycles[2].committed
         /\ \A i \in 1..2 : Succeeded(cycles[1].task[i])
         /\ CaptureFailed(cycles[2].task[1])
         /\ cycles[2].task[1].proc = "killed"
         /\ Succeeded(cycles[2].task[2]) )
       => /\ cycles[2].model = currentModels[2]
          /\ Len(predictions) = 3
          /\ Len(systemErrors) = 1
          /\ currentModelIndex = 0

\* C6: a failed capture leaves exactly one error record for its camera, and
\* that record is in the history before the task's catch block runs.
C6_OneErrorPerCaptureFailure ==
    \A k \in DOMAIN cycles : \A i \in DOMAIN cycles[k].task :
        CaptureFailed(cycles[k].task[i]) => ErrorsFor(k, cameras[i]) = 1

\* C7: a dispatch that fails (HTTP status, transport, error field) returns
\* null to its task without throwing, appends no error record, leaves the
\* latest frame and the prediction history as they were, and contributes no
\* record to its cycle's batch.
C7_DispatchFailureIsSilent ==
    /\ [][\A k \in DOMAIN cycles : \A i \in DOMAIN cycles[k].task :
            \A outcome \in DispatchOutcomes \ {"ok"} :
                DispatchResponse(k, i, outcome) =>
                    /\ cycles'[k].task[i].pc = "done"
                    /\ cycles'[k].task[i].result = Null
                    /\ systemErrors' = systemErrors
                    /\ nErr' = nErr
                    /\ imageBase' = imageBase
                    /\ predictions' = predictions]_vars
    /\ [](\A k \in DOMAIN cycles : \A i \in DOMAIN cycles[k].task :
            DispatchFailed(cycles[k].task[i]) =>
                /\ RecordsFor(k, cameras[i]) = 0
                /\ ErrorsFor(k, cameras[i]) = 0)

\* A dispatch failed in a cycle that has committed, next to a camera whose
\* record went in.
C7_Witness ==
    \E k \in DOMAIN cycles : \E i, j \in DOMAIN cycles[k].task :
        /\ cycles[k].committed
        /\ DispatchFailed(cycles[k].task[i])
        /\ Succeeded(cycles[k].task[j])
        /\ RecordsFor(k, cameras[j]) = 1

\* C8: every task that fails, at capture or at dispatch, leaves an error
\* record for its camera.
C8_ErrorOnAnyFailure ==
    \A k \in DOMAIN cycles : \A i \in DOMAIN cycles[k].task :
        LET t == cycles[k].task[i] IN
        (t.pc = "done" /\ t.result = Null) => ErrorsFor(k, cameras[i]) >= 1

\* C8 as amended: a capture failure puts a record for its camera at the
\* front of the error history, when the capture is rejected and again when
\* the task's catch block runs; a dispatch failure adds none.
C8_ErrorOnCaptureFailureOnly ==
    [][\A k \in DOMAIN cycles : \A i \in DOMAIN cycles[k].task :
        LET t == cycles[k].task[i]
            u == cycles'[k].task[i]
        IN
        /\ ((t.pc = "capture" /\ u.pc = "rejected")
              \/ (t.pc = "rejected" /\ u.pc = "done")) =>
               /\ nErr' = nErr + 1
               /\ Len(systemErrors') >= 1
               /\ systemErrors'[1].cameraId = cameras[i]
               /\ systemErrors'[1].cycle = k
        /\ (t.pc = "dispatch" /\ u.pc = "done") =>
               /\ nErr' = nErr
               /\ systemErrors' = systemErrors]_vars

\* One camera failed at capture and the other at dispatch in the same
\* cycle: the first has error records, the second has none.
C8_Witness ==
    \E k \in DOMAIN cycles : \E i, j \in DOMAIN cycles[k].task :
        /\ cycles[k].task[i].pc = "done"
        /\ CaptureFailed(cycles[k].task[i])
        /\ ErrorsFor(k, cameras[i]) >= 1
        /\ DispatchFailed(cycles[k].task[j])
        /\ ErrorsFor(k, cameras[j]) = 0

\* C9: whichever cameras fail in a cycle, each camera that captured and
\* dispatched successfully has its record in the history once the cycle has
\* committed, and failures never stop the interval timer.
C9_FailuresIsolated ==
    /\ \A k \in DOMAIN cycles :
           cycles[k].committed =>
               \A i \in DOMAIN cycles[k].task :
                   Succeeded(cycles[k].task[i]) =>
                       /\ RecordsFor(k, cameras[i]) = 1
                       /\ \E j \in DOMAIN predictions :
                              predictions[j].image = cycles[k].task[i].result.image
    /\ (cameras # <<>> /\ Len(cycles) < MaxCycles /\ ~MicrotaskPending)
           => ENABLED Tick

\* In one committed cycle a capture failed, the sibling succeeded and its
\* record is in the history, and a later cycle has started.
C9_Witness ==
    \E k \in DOMAIN cycles : \E i, j \in DOMAIN cycles[k].task :
        /\ cycles[k].committed
        /\ CaptureFailed(cycles[k].task[i])
        /\ Succeeded(cycles[k].task[j])
        /\ RecordsFor(k, cameras[j]) = 1
        /\ k < Len(cycles)

\* C10: a cycle's records enter the history only once every task of the
\* cycle has returned, and as one block: the records of a cycle sit next to
\* each other, never mixed with another cycle's.
C10_BatchAtomic ==
    /\ \A j \in DOMAIN predictions :
           LET k == predictions[j].cycle IN
           k \in DOMAIN cycles =>
               \A i \in DOMAIN cycles[k].task : cycles[k].task[i].pc = "done"
    /\ \A a, b, c \in DOMAIN predictions :
           (a < b /\ b < c /\ predictions[a].cycle = predictions[c].cycle)
               => predictions[b].cycle = predictions[a].cycle

\* Two overlapping cycles each committed two records, the later cycle first.
C10_Witness ==
    /\ Len(predictions) = 4
    /\ predictions[1].cycle = 1
    /\ predictions[2].cycle = 1
    /\ predictions[3].cycle = 2
    /\ predictions[4].cycle = 2

\* C11: ticks are not gated on the previous cycle.  While an earlier cycle
\* still has tasks in flight the interval timer can start a new cycle, and a
\* cycle whose tasks have all returned can commit whatever the state of the
\* cycles started before it.
C11_TicksNotGated ==
    /\ (/\ \E k \in DOMAIN cycles : \E i \in DOMAIN cycles[k].task :
               cycles[k].task[i].pc \in {"capture", "dispatch"}
        /\ ticks < MaxCycles
        /\ ~MicrotaskPending) => ENABLED Tick
    /\ \A k \in DOMAIN cycles :
           (/\ ~cycles[k].committed
            /\ \A i \in DOMAIN cycles[k].task : cycles[k].task[i].pc = "done")
               => ENABLED Commit(k)

\* The second cycle started while the first had a task in flight, and has
\* committed its batch while the first is still waiting for that task.
C11_Witness ==
    /\ Len(cycles) = 2
    /\ cycles[2].committed
    /\ \E j \in DOMAIN predictions : predictions[j].cycle = 2
    /\ ~cycles[1].committed
    /\ \E i \in DOMAIN cycles[1].task :
           cycles[1].task[i].pc \in {"capture", "dispatch"}

\* C12: a call of predictionLoop with an empty camera list or an empty model
\* list changes nothing but the call count: histories, cursor and latest
\* frame stay as they are, no task is started and no error is recorded.
C12_EmptyTickDoesNothing ==
    [][(ticks' # ticks /\ (Len(cameras) = 0 \/ Len(currentModels) = 0))
           => UNCHANGED <<predictions, systemErrors, currentModelIndex,
                          imageBase, cycles, nPred, nErr>>]_vars

\* predictionLoop has been called MaxCycles times on an empty camera list
\* or an empty model list, and nothing was started or recorded.
C12_Witness ==
    /\ ticks = MaxCycles
    /\ Len(cameras) = 0 \/ Len(currentModels) = 0
    /\ cycles = <<>>
    /\ predictions = <<>>
    /\ systemErrors = <<>>

\* C20: the latest frame changes only in the step of a successful dispatch,
\* which stores the encoded frame of that dispatch's capture; every other
\* step (capture failure, dispatch failure, skipped cycle, commit) leaves it.
C20_LatestFrameOnlyOnSuccess ==
    [][/\ imageBase' # imageBase =>
              \E k \in DOMAIN cycles : \E i \in DOMAIN cycles[k].task :
                  /\ DispatchResponse(k, i, "ok")
                  /\ imageBase' = Base64Image(cycles[k].task[i].frame)
       /\ \A k \in DOMAIN cycles : \A i \in DOMAIN cycles[k].task :
              DispatchResponse(k, i, "ok") =>
                  /\ imageBase' = Base64Image(cycles[k].task[i].frame)
                  /\ imageBase' # imageBase]_vars

\* A cycle has committed in which one task failed, at capture or at
\* dispatch, and one succeeded: the latest frame is the frame of the
\* successful dispatch.
C20_Witness ==
    \E k \in DOMAIN cycles : \E i, j \in DOMAIN cycles[k].task :
        /\ cycles[k].committed
        /\ Succeeded(cycles[k].task[i])
        /\ imageBase = cycles[k].task[i].result.image
        /\ CaptureFailed(cycles[k].task[j]) \/ DispatchFailed(cycles[k].task[j])
        /\ RecordsFor(k, cameras[j]) = 0

\* The timeout entries in the error history for cam in cycle k.
TimeoutErrorsFor(k, cam) ==
    Cardinality({j \in DOMAIN systemErrors :
                    /\ systemErrors[j].cycle = k
                    /\ systemErrors[j].cameraId = cam
                    /\ systemErrors[j].error = "timeout"})

\* C14: a pending capture is fulfilled, with the frame, exactly by a close
\* with exit code 0 after output has arrived; a close with another code or
\* without output rejects it, and nothing but a close fulfils a capture.
C14_CaptureSucceedsIffCleanCloseWithData ==
    /\ [][\A k \in DOMAIN cycles : \A i \in DOMAIN cycles[k].task :
          \A code \in {0, 1} :
              (FfmpegClose(k, i, code) /\ cycles[k].task[i].pc = "capture") =>
                  IF code = 0 /\ cycles[k].task[i].hasData
                  THEN /\ cycles'[k].task[i].pc = "resolved"
                       /\ cycles'[k].task[i].frame = Frame(k, cameras[i])
                  ELSE /\ cycles'[k].task[i].pc = "rejected"
                       /\ cycles'[k].task[i].frame = Null]_vars
    /\ [](\A k \in DOMAIN cycles : \A i \in DOMAIN cycles[k].task :
              cycles[k].task[i].frame # Null =>
                  /\ cycles[k].task[i].proc = "closed"
                  /\ cycles[k].task[i].hasData)

\* In one cycle a capture was fulfilled with its frame, and the sibling's
\* process closed after producing output but the capture failed.
C14_Witness ==
    \E k \in DOMAIN cycles : \E i, j \in DOMAIN cycles[k].task :
        /\ cycles[k].task[i].frame = Frame(k, cameras[i])
        /\ cycles[k].task[i].pc = "resolved"
        /\ cycles[k].task[j].hasData
        /\ cycles[k].task[j].proc = "closed"
        /\ CaptureFailed(cycles[k].task[j])

\* C15: where the deadline acted no output had arrived, the process is no
\* longer running and the capture has failed, all before the caller's catch
\* block runs; where output has arrived the deadline can still fire but the
\* process is not killed and no timeout is recorded for the capture.
C15_DeadlineKillsOnlyWithoutData ==
    /\ \A k \in DOMAIN cycles : \A i \in DOMAIN cycles[k].task :
           LET t == cycles[k].task[i] IN
           /\ t.timer = "fired" =>
                  /\ ~t.hasData
                  /\ t.proc # "running"
                  /\ t.pc # "capture"
                  /\ TimeoutErrorsFor(k, cameras[i]) = 1
           /\ t.hasData =>
                  /\ t.proc # "killed"
                  /\ TimeoutErrorsFor(k, cameras[i]) = 0
           /\ (t.hasData /\ t.timer = "armed" /\ ~MicrotaskPending)
                  => ENABLED CaptureTimeout(k, i)

\* The deadline fired on a silent capture: the process is killed and the
\* rejection has not yet reached the caller.  The sibling produced output
\* and went on to succeed.
C15_Witness ==
    \E k \in DOMAIN cycles : \E i, j \in DOMAIN cycles[k].task :
        /\ cycles[k].task[i].timer = "fired"
        /\ cycles[k].task[i].proc = "killed"
        /\ cycles[k].task[i].pc = "rejected"
        /\ Succeeded(cycles[k].task[j])

\* The header line, of any group, under which line j of the output is
\* listed; 0 if no header precedes it.
HeaderBefore(lines, j) ==
    LET hs == {h \in 1..(j - 1) : IsGroupHeader(lines[h])}
    IN  IF hs = {} THEN 0 ELSE CHOOSE h \in hs : \A g \in hs : g <= h

\* C16: on every platform the descriptors discovery resolves with carry the
\* ids 0, 1, ..., n-1 in the order the devices were listed, and each stream
\* port is 20000 plus the id.
C16_IdsContiguousPortsFollow ==
    disc.pc = "resolved" =>
        \A c \in DOMAIN disc.detected :
            /\ disc.detected[c].id = c - 1
            /\ disc.detected[c].streamPort = PortBase + disc.detected[c].id
            /\ \A b \in DOMAIN disc.detected :
                   b < c => disc.detected[b].device < disc.detected[c].device

\* The Windows probe listed other lines before and between two video
\* devices; the descriptors are numbered 0 and 1.
C16_Witness ==
    /\ disc.pc = "resolved"
    /\ disc.platform = "win32"
    /\ Len(disc.detected) = 2
    /\ disc.detected[1].device > 1
    /\ disc.detected[2].device > disc.detected[1].device + 1

\* C17: on Linux every descriptor's device is a /dev/video node listed under
\* the ordinary group header the descriptor is named after: never a node of
\* the pispbe or rpivid group, never a /dev/media node.
C17_InternalDevicesDiscarded ==
    (disc.pc = "resolved" /\ disc.platform = "linux") =>
        \A c \in DOMAIN disc.detected :
            /\ disc.output[disc.detected[c].device] = "video"
            /\ disc.output[disc.detected[c].name] = "header"
            /\ HeaderBefore(disc.output, disc.detected[c].device)
                   = disc.detected[c].name

\* C18: on Linux no two descriptors come from the same group header, and a
\* descriptor's device is the first /dev/video node after its header: the
\* nodes that follow it up to the next header produce nothing.
C18_OneCameraPerGroup ==
    (disc.pc = "resolved" /\ disc.platform = "linux") =>
        /\ \A b, c \in DOMAIN disc.detected :
               b # c =>
                   /\ disc.detected[b].name # disc.detected[c].name
                   /\ HeaderBefore(disc.output, disc.detected[b].device)
                          # HeaderBefore(disc.output, disc.detected[c].device)
        /\ \A c \in DOMAIN disc.detected :
               /\ disc.detected[c].name < disc.detected[c].device
               /\ disc.output[disc.detected[c].device] = "video"
               /\ \A j \in (disc.detected[c].name + 1)
                               ..(disc.detected[c].device - 1) :
                      disc.output[j] # "video"

\* A group listed two video nodes under its header; discovery resolved with
\* one descriptor, for the first node.
C18_Witness ==
    /\ disc.pc = "resolved"
    /\ disc.platform = "linux"
    /\ Len(disc.detected) = 1
    /\ \E j \in DOMAIN disc.output :
           /\ j > disc.detected[1].device
           /\ disc.output[j] = "video"
           /\ HeaderBefore(disc.output, j) = disc.detected[1].name

\* C19: on every platform discovery resolves and never takes the process
\* down, and it resolves with no descriptor when the probe could not be
\* started or printed nothing.
C19_DiscoverNeverFails ==
    /\ disc.pc # "crashed"
    /\ (disc.pc = "resolved" /\ (~disc.spawned \/ disc.output = <<>>))
           => disc.detected = <<>>

\* C13: every cycle that has started eventually commits, whatever ffmpeg
\* does, as long as timers fire, promise reactions run and every dispatch is
\* answered.
C13_EveryCycleCommits ==
    \A k \in 1..MaxCycles :
        (k \in DOMAIN cycles) ~> (k \in DOMAIN cycles /\ cycles[k].committed)

\* predictions.filter(p => p.cameraId === id)
ByCamera(preds, id) == SelectSeq(preds, LAMBDA p : p.cameraId = id)

\* C22: the records byCamera returns for a camera are exactly that camera's
\* records of the history, and they are ordered newest-first by timestamp.
C22_ByCameraNewestFirst ==
    \A i \in DOMAIN cameras :
        LET s == ByCamera(predictions, cameras[i]) IN
        /\ Len(s) = Cardinality({j \in DOMAIN predictions :
                                    predictions[j].cameraId = cameras[i]})
        /\ \A a \in DOMAIN s : s[a].cameraId = cameras[i]
        /\ \A a, b \in DOMAIN s :
               a < b => s[a].timestamp >= s[b].timestamp

\* C23: while a task of a cycle is pending the cursor still designates the
\* model the cycle selected; the cursor moves only in the cycle's commit.
C23_CursorAdvancedAtCommit ==
    \A k \in DOMAIN cycles :
        (\E i \in DOMAIN cycles[k].task : cycles[k].task[i].pc # "done")
            => currentModels[currentModelIndex + 1] = cycles[k].model

\* C24: the cursor is always an index into the model list, and the model
\* read through it, at any time and by any cycle, is a configured model.
C24_CursorInRange ==
    Len(currentModels) > 0 =>
        /\ currentModelIndex \in 0..(Len(currentModels) - 1)
        /\ currentModels[currentModelIndex + 1] \in Range(ConfiguredModels)
        /\ \A k \in DOMAIN cycles : cycles[k].model \in Range(ConfiguredModels)

\* As many cycles as there are models have started and the cursor has
\* wrapped round to the first model.
C24_Witness ==
    /\ ticks = Len(currentModels)
    /\ Len(cycles) = ticks
    /\ currentModelIndex = 0
    /\ cycles[ticks].model = currentModels[Len(currentModels)]

\* C25: a task enters its dispatch only from a fulfilled capture of its own
\* cycle; the dispatch works on that capture's frame and on the model the
\* cycle read when it started; a task whose capture failed never dispatches,
\* returns null and leaves no record in the history.
C25_DispatchOnlyAfterCapture ==
    /\ [](\A k \in DOMAIN cycles : \A i \in DOMAIN cycles[k].task :
              LET t == cycles[k].task[i] IN
              /\ t.pc = "dispatch" => t.frame = Frame(k, cameras[i])
              /\ t.result # Null =>
                     /\ t.frame = Frame(k, cameras[i])
                     /\ t.result.image = Base64Image(t.frame)
                     /\ t.result.model = cycles[k].model
                     /\ t.result.cameraId = cameras[i]
              /\ t.frame = Null =>
                     /\ t.pc # "dispatch"
                     /\ t.result = Null
                     /\ RecordsFor(k, cameras[i]) = 0)
    /\ [][\A k \in DOMAIN cycles :
              /\ cycles'[k].model = cycles[k].model
              /\ \A i \in DOMAIN cycles[k].task :
                     (cycles'[k].task[i].pc = "dispatch"
                          /\ cycles[k].task[i].pc # "dispatch")
                         => cycles[k].task[i].pc = "resolved"]_vars

\* The second cycle has committed: one camera's capture failed and left no
\* record, the other's dispatch succeeded with the cycle's model, which is
\* no longer the one under the cursor.
C25_Witness ==
    /\ Len(cycles) = 2
    /\ cycles[2].committed
    /\ \E i, j \in DOMAIN cycles[2].task :
           /\ CaptureFailed(cycles[2].task[i])
           /\ RecordsFor(2, cameras[i]) = 0
           /\ Succeeded(cycles[2].task[j])
           /\ RecordsFor(2, cameras[j]) = 1
           /\ cycles[2].task[j].result.model
                  # currentModels[currentModelIndex + 1]

\* C26: every record of the history is the return value of a dispatch that
\* succeeded; the records of one cycle all carry the model that cycle read
\* at its start; a cycle leaves at most one record per camera, and its
\* records stand in camera-list order.
C26_RecordsFromSuccessfulDispatch ==
    /\ \A j \in DOMAIN predictions :
           LET k == predictions[j].cycle IN
           /\ k \in DOMAIN cycles
           /\ cycles[k].committed
           /\ predictions[j].model = cycles[k].model
           /\ \E i \in DOMAIN cycles[k].task :
                  /\ cameras[i] = predictions[j].cameraId
                  /\ cycles[k].task[i].frame # Null
                  /\ cycles[k].task[i].result
                         = [predictions[j] EXCEPT !.n = 0]
    /\ \A a, b \in DOMAIN predictions :
           (a < b /\ predictions[a].cycle = predictions[b].cycle)
               => predictions[a].cameraId < predictions[b].cameraId

\* Two cycles overlap; the second has committed a record for each camera,
\* both with the second model, while the cursor is back at the first.
C26_Witness ==
    /\ Len(cycles) = 2
    /\ ~cycles[1].committed
    /\ cycles[2].committed
    /\ Len(predictions) = Len(cameras)
    /\ Len(cameras) = MaxCameras
    /\ \A j \in DOMAIN predictions :
           /\ predictions[j].cycle = 2
           /\ predictions[j].model # currentModels[currentModelIndex + 1]

\* C27: a capture handler appends an error record only while the capture is
\* still pending, and no error record of a cycle is appended once the cycle
\* has committed.
C27_SettledCaptureIsQuiet ==
    [][nErr' # nErr =>
          LET e == systemErrors'[1] IN
          /\ ~cycles[e.cycle].committed
          /\ e.error # "catch" =>
                 \E i \in DOMAIN cameras :
                     /\ cameras[i] = e.cameraId
                     /\ cycles[e.cycle].task[i].pc = "capture"]_vars

\* C21: the answer of /api/predictions/latest has an entry for exactly the
\* cameras that have a record in the history, and each entry is a record of
\* that camera whose timestamp no other record of the camera exceeds,
\* whatever the order of the history.
C21_LatestPerCamera ==
    (req.pc = "responded" /\ req.route = "/api/predictions/latest") =>
        /\ DOMAIN req.body = {predictions[j].cameraId : j \in DOMAIN predictions}
        /\ \A c \in DOMAIN req.body :
               /\ \E j \in DOMAIN predictions : predictions[j] = req.body[c]
               /\ req.body[c].cameraId = c
               /\ \A j \in DOMAIN predictions :
                      predictions[j].cameraId = c
                          => predictions[j].timestamp <= req.body[c].timestamp

\* The history holds an older and then a newer record of camera 0 and then
\* a still older record of camera 1; the answer has the newer record for
\* camera 0 and the only record for camera 1.
C21_Witness ==
    /\ req.pc = "responded"
    /\ req.route = "/api/predictions/latest"
    /\ Len(predictions) = 3
    /\ predictions[1].cameraId = 0 /\ predictions[1].timestamp = 2
    /\ predictions[2].cameraId = 0 /\ predictions[2].timestamp = 3
    /\ predictions[3].cameraId = 1 /\ predictions[3].timestamp = 1
    /\ req.body[0].timestamp = 3
    /\ req.body[1].timestamp = 1

\* C30: every request to /api/image is eventually answered, with or without
\* a latest frame.
C30_ImageRequestAnswered ==
    (req.pc = "received" /\ req.route = "/api/image")
        ~> (req.pc = "responded")

\* C28: git reset --hard and git clean take effect only in a working tree
\* without uncommitted changes and without unpushed commits, or after the
\* user has typed CONFIRM, whichever git commands of the check fail.
C28_DestructiveOnlyWhenSafe ==
    upd.pc # "none" =>
        \A j \in DOMAIN upd.ran :
            (upd.ran[j].cmd \in {"git reset --hard", "git clean -fd"}
                 /\ upd.ran[j].ok)
                => \/ ~upd.dirty /\ ~upd.unpushed
                   \/ Trim(upd.answer) = "CONFIRM"

\* C29: waitForInternet makes at most 60 probes; once a probe has succeeded
\* no further probe is made; if none succeeds the wait gives up after the
\* 60th and selfUpdate ends without having run any git command.
C29_ConnectivityWaitBounded ==
    upd.pc # "none" =>
        /\ upd.i <= MaxAttempts
        /\ upd.online => ~ENABLED (\E hasInternet \in BOOLEAN : Probe(hasInternet))
        /\ ~upd.online => upd.ran = <<>>
        /\ (~upd.online /\ upd.i = MaxAttempts) => upd.pc = "done"
        /\ (~upd.online /\ upd.i < MaxAttempts) => upd.pc = "waiting"

\* Sixty probes have failed: selfUpdate has ended and no git command ran.
C29_Witness ==
    /\ upd.pc = "done"
    /\ upd.i = MaxAttempts
    /\ ~upd.online
    /\ upd.ran = <<>>

====
